---- MODULE Spec2Model ----
\* toolz.traced: the traced namespace, memoize, compose and the name
\* sanitizer of src/toolz/traced.py, as state machines.
EXTENDS Integers, Sequences, FiniteSets, TLC

VARIABLES
    heap,     \* the callable objects, by identity (index = id)
    caches,   \* the cache mappings (dicts), by identity
    held,     \* ids of the callables the caller holds a reference to
    dicts,    \* ids of the cache mappings the caller holds a reference to
    world,    \* the state an impure underlying function reads and changes
    last,     \* the last call made by the caller and what it did
    made,     \* what each memoize / compose call was given and returned
    invoked,  \* per wrapper and argument tuple: successful runs of its f
    func,     \* name sanitizer: the function object whose name is wanted
    cleaned,  \* name sanitizer: the results of _clean_name and _safe_funcname
    ns,       \* bulk wrapper: toolz.__dict__
    d         \* bulk wrapper: the traced namespace d

vars == <<heap, caches, held, dicts, world, last, made, invoked,
          func, cleaned, ns, d>>

----------------------------------------------------------------------------
\* Bounds

\* plain values are 0..MaxVal; arithmetic of the underlying functions is
\* modulo MaxVal + 1
MaxVal == 1
\* callable objects created by memoize / compose on top of the given ones
MaxNew == 4
\* longest run of one filler character in a sanitizer input
MaxFill == 33
\* longest compose argument list
MaxFuncs == 3

\* the world an impure function reads and steps is 0..MaxWorld
MaxWorld == 2

\* s[:32] in _clean_name
NameLimit == 32

Min(a, b) == IF a <= b THEN a ELSE b

----------------------------------------------------------------------------
\* Strings are sequences of one-character strings.

Lower == {"a", "b", "c", "d", "e", "f", "g", "h", "i", "j", "k", "l", "m",
          "n", "o", "p", "q", "r", "s", "t", "u", "v", "w", "x", "y", "z"}
Upper == {"A", "B", "C", "D", "E", "F", "G", "H", "I", "J", "K", "L", "M",
          "N", "O", "P", "Q", "R", "S", "T", "U", "V", "W", "X", "Y", "Z"}
Digits == {"0", "1", "2", "3", "4", "5", "6", "7", "8", "9"}
\* [0-9a-zA-Z_]
WordChars == Digits \cup Lower \cup Upper \cup {"_"}
\* [a-zA-Z_]
StartChars == Lower \cup Upper \cup {"_"}

\* re.sub('[^0-9a-zA-Z_]', '', s)
StripNonWord(s) == SelectSeq(s, LAMBDA c : c \in WordChars)

\* re.sub('^[^a-zA-Z_]+', '', s): the longest leading run outside [a-zA-Z_]
RECURSIVE StripLeading(_)
StripLeading(s) ==
    IF s = <<>> \/ Head(s) \in StartChars THEN s ELSE StripLeading(Tail(s))

\* s[:n]
Slice(s, n) == SubSeq(s, 1, Min(n, Len(s)))

\* _clean_name whose second pattern is '^[^a-zA-Z_]': one character, no run
cleanNameOneLeading(s) ==
    LET t == StripNonWord(s) IN
    Slice(IF t = <<>> \/ Head(t) \in StartChars THEN t ELSE Tail(t), NameLimit)

\* def _clean_name(s)
_clean_name(s) == Slice(StripLeading(StripNonWord(s)), NameLimit)

\* An attribute that is absent: reading it raises AttributeError.
NoAttr == <<"<absent>">>

\* func.func_name, else func.__name__, else repr(func); a bare except moves on
\* when the read or _clean_name raises.
_safe_funcname(fn) ==
    IF fn.func_name # NoAttr THEN _clean_name(fn.func_name)
    ELSE IF fn.name # NoAttr THEN _clean_name(fn.name)
    ELSE _clean_name(fn.repr)

----------------------------------------------------------------------------
\* Values, arguments and outcomes of a call

Val == 0..MaxVal
Mod == MaxVal + 1
\* a list object such as [1, 2, 3]: a value that has no hash
Unhashable == 0 - 1

\* hash(args) succeeds: no element of the tuple is a list
Hashable(args) == \A i \in 1..Len(args) : args[i] # Unhashable

\* **kwargs: a set of <<keyword, value>> pairs
NoKw == {}

Ret(v) == [ok |-> TRUE, val |-> v, err |-> "none"]
Raise(e) == [ok |-> FALSE, val |-> 0, err |-> e]

HashError == "TypeError: Arguments to memoized function must be hashable"
KeywordError == "TypeError: got an unexpected keyword argument"
ArgError == "TypeError: bad arguments"

\* toolz.identity: def identity(x): return x
ToolzIdentity(args, kw) ==
    IF Len(args) = 1 /\ kw = NoKw THEN Ret(args[1]) ELSE Raise(ArgError)

\* The underlying functions handed to memoize and compose, by behaviour:
\* what one invocation returns or raises, and the world it leaves.
Apply(beh, args, kw, w) ==
    LET one == Len(args) = 1 /\ kw = NoKw /\ Hashable(args) IN
    CASE beh = "inc" ->
           [out |-> IF one THEN Ret((args[1] + 1) % Mod) ELSE Raise(ArgError),
            world |-> w]
      [] beh = "add" ->
           [out |-> IF Len(args) \in {1, 2} /\ Hashable(args)
                       /\ \A p \in kw : p[1] = "k"
                    THEN LET x == args[1]
                             y == IF Len(args) = 2 THEN args[2] ELSE 1
                             k == IF kw = NoKw THEN 0 ELSE (CHOOSE p \in kw : TRUE)[2]
                         IN  Ret((x + y + k) % Mod)
                    ELSE Raise(ArgError),
            world |-> w]
      [] beh = "recip" ->
           [out |-> IF ~one THEN Raise(ArgError)
                    ELSE IF args[1] = 0 THEN Raise("ZeroDivisionError")
                    ELSE Ret(args[1]),
            world |-> w]
      [] beh = "flaky" ->
           [out |-> IF ~one THEN Raise(ArgError)
                    ELSE IF w = 0 THEN Raise("IOError")
                    ELSE Ret((args[1] + w) % Mod),
            world |-> IF one THEN (w + 1) % (MaxWorld + 1) ELSE w]
      [] beh = "identity" ->
           [out |-> ToolzIdentity(args, kw), world |-> w]

----------------------------------------------------------------------------
\* Callable objects

None == 0

\* name is __name__, which func_name aliases on a function
Object(kind, beh, target, fns, cache, name, module) ==
    [kind |-> kind, beh |-> beh, target |-> target, fns |-> fns,
     cache |-> cache, name |-> name, module |-> module]

\* the attributes _safe_funcname reads: func_name, __name__ and repr(o)
Attrs(o) ==
    [func_name |-> o.name, name |-> o.name,
     repr |-> IF o.name = NoAttr
              THEN <<"<", "p", "a", "r", "t", "i", "a", "l", " ", "0", "x", "7", ">">>
              ELSE <<"<", "f", "u", "n", "c", "t", "i", "o", "n", " ">> \o o.name
                       \o <<" ", "a", "t", " ", "0", "x", "7", ">">>]

\* def f(...): a plain function
Function(beh, name) ==
    Object("function", beh, None, <<>>, None, name, TRUE)

\* a callable that has neither __name__ nor __module__ (functools.partial)
Partial(beh) ==
    Object("function", beh, None, <<>>, None, NoAttr, FALSE)

\* an instance of a class that defines __call__: __module__ but no __name__
Instance(beh) ==
    Object("function", beh, None, <<>>, None, NoAttr, TRUE)

\* functools.update_wrapper(wrapper, wrapped) reads __module__ and __name__
\* of wrapped: AttributeError when one is absent
CanWrap(o) == o.module /\ o.name # NoAttr

\* functools.update_wrapper(wrapper, wrapped)
update_wrapper(wrapper, wrapped) ==
    [wrapper EXCEPT !.name = wrapped.name, !.module = wrapped.module]

\* tracer.trace(f): a new function that logs the call and forwards it
TracerTrace(h, f) ==
    Object("tracer", "", f, <<>>, None, <<"w", "r", "a", "p", "p", "e", "r">>,
           TRUE)

\* trace(f, wrapped, name): the heap with f renamed and the traced wrapper
\* appended; the wrapper's id is the length of the new heap
trace(h, f, wrapped, name) ==
    LET h1 == IF wrapped # None
              THEN [h EXCEPT ![f] = update_wrapper(h[f], h[wrapped])]
              ELSE IF name # NoAttr
              THEN [h EXCEPT ![f].name = name]
              ELSE h
    IN  Append(h1, update_wrapper(TracerTrace(h1, f), h1[f]))

----------------------------------------------------------------------------
\* Calling a callable object.  A call returns its outcome, the world and the
\* caches it leaves, and the log of the invocations it made: the callee
\* itself at depth 0, what it invoked at depth 1, and so on.

RECURSIVE Call(_, _, _, _, _, _)
RECURSIVE memof(_, _, _, _, _, _)
RECURSIVE composed(_, _, _, _, _, _)
RECURSIVE ComposedLoop(_, _, _, _)

\* F applied to the value of v, with v evaluated once
Bind(v, F(_)) == CHOOSE y \in {F(x) : x \in {v}} : TRUE

Deeper(log) ==
    [i \in 1..Len(log) |-> [log[i] EXCEPT !.depth = @ + 1]]

Entry(f, args, kw, out) ==
    [f |-> f, args |-> args, kw |-> kw, out |-> out, depth |-> 0]

\* the callee f was entered with (args, kw) and r is what its body did
Invoked(f, args, kw, r) ==
    Bind(r, LAMBDA x :
        [x EXCEPT !.log = <<Entry(f, args, kw, x.out)>> \o Deeper(x.log)])

Failed(cs, w, e) ==
    [out |-> Raise(e), world |-> w, caches |-> cs, log |-> <<>>]

\* cache[args] = result
Store(cache, args, result) == (args :> result) @@ cache

\* the wrapper of tracer.trace(f): forwards (*args, **kwargs), returns the
\* result or re-raises the error
TracerCall(h, cs, w, o, args, kw) == Call(h, cs, w, o.target, args, kw)

\* memof that never looks its arguments up: f runs and is stored every time
memofNoLookup(h, cs, w, o, args, kw) ==
    IF kw # NoKw THEN Failed(cs, w, KeywordError)
    ELSE IF ~Hashable(args) THEN Failed(cs, w, HashError)
    ELSE Bind(Call(h, cs, w, o.target, args, NoKw), LAMBDA r :
             IF r.out.ok
             THEN [r EXCEPT !.caches[o.cache] = Store(@, args, r.out.val)]
             ELSE r)

\* memof without the try / except around the membership test: the lookup
\* is skipped for a tuple that has no hash and f runs on it
memofNoHashCheck(h, cs, w, o, args, kw) ==
    IF kw # NoKw THEN Failed(cs, w, KeywordError)
    ELSE IF Hashable(args) /\ args \in DOMAIN cs[o.cache]
    THEN [out |-> Ret(cs[o.cache][args]), world |-> w, caches |-> cs,
          log |-> <<>>]
    ELSE Bind(Call(h, cs, w, o.target, args, NoKw), LAMBDA r :
             IF r.out.ok
             THEN [r EXCEPT !.caches[o.cache] = Store(@, args, r.out.val)]
             ELSE r)

\* def memof(*args, **kwargs) that drops kwargs
memofDropKeywords(h, cs, w, o, args, kw) ==
    IF ~Hashable(args) THEN Failed(cs, w, HashError)
    ELSE IF args \in DOMAIN cs[o.cache]
    THEN [out |-> Ret(cs[o.cache][args]), world |-> w, caches |-> cs,
          log |-> <<>>]
    ELSE Bind(Call(h, cs, w, o.target, args, NoKw), LAMBDA r :
             IF r.out.ok
             THEN [r EXCEPT !.caches[o.cache] = Store(@, args, r.out.val)]
             ELSE r)

\* memof that stores an entry for the tuple whether or not f raised
memofStoreFailure(h, cs, w, o, args, kw) ==
    IF kw # NoKw THEN Failed(cs, w, KeywordError)
    ELSE IF ~Hashable(args) THEN Failed(cs, w, HashError)
    ELSE IF args \in DOMAIN cs[o.cache]
    THEN [out |-> Ret(cs[o.cache][args]), world |-> w, caches |-> cs,
          log |-> <<>>]
    ELSE Bind(Call(h, cs, w, o.target, args, NoKw), LAMBDA r :
             [r EXCEPT !.caches[o.cache] = Store(@, args, r.out.val)])

\* def memof(*args)
memof(h, cs, w, o, args, kw) ==
    IF kw # NoKw THEN Failed(cs, w, KeywordError)
    ELSE IF ~Hashable(args) THEN Failed(cs, w, HashError)
    ELSE IF args \in DOMAIN cs[o.cache]
    THEN [out |-> Ret(cs[o.cache][args]), world |-> w, caches |-> cs,
          log |-> <<>>]
    ELSE Bind(Call(h, cs, w, o.target, args, NoKw), LAMBDA r :
             IF r.out.ok
             THEN [r EXCEPT !.caches[o.cache] = Store(@, args, r.out.val)]
             ELSE r)

\* for f in fns[i:]: ret = f(ret)
ComposedLoop(h, r, fns, i) ==
    IF i > Len(fns) \/ ~r.out.ok THEN r
    ELSE Bind(Call(h, r.caches, r.world, fns[i], <<r.out.val>>, NoKw),
              LAMBDA n :
                  ComposedLoop(h, [n EXCEPT !.log = r.log \o n.log], fns, i + 1))

\* composed whose loop runs over fns[2:]
composedSkipsOne(h, cs, w, o, args, kw) ==
    Bind(Call(h, cs, w, o.fns[1], args, kw), LAMBDA ret :
        ComposedLoop(h, ret, o.fns, 3))

\* def composed(*args, **kwargs)
composed(h, cs, w, o, args, kw) ==
    Bind(Call(h, cs, w, o.fns[1], args, kw), LAMBDA ret :
        ComposedLoop(h, ret, o.fns, 2))

Call(h, cs, w, f, args, kw) ==
    LET o == h[f] IN
    Invoked(f, args, kw,
        CASE o.kind = "function" ->
               LET a == Apply(o.beh, args, kw, w) IN
               [out |-> a.out, world |-> a.world, caches |-> cs, log |-> <<>>]
          [] o.kind = "tracer" -> TracerCall(h, cs, w, o, args, kw)
          [] o.kind = "memof" -> memof(h, cs, w, o, args, kw)
          [] o.kind = "composed" -> composed(h, cs, w, o, args, kw))

----------------------------------------------------------------------------
\* memoize and compose

EmptyDict == <<>>

\* def memoize(f, cache={}): one default mapping for every call without one
memoizeSharedDefault(h, cs, f, cache) ==
    IF ~CanWrap(h[f])
    THEN [heap |-> h, caches |-> cs, ret |-> None]
    ELSE
    LET fresh == cache = None /\ cs = <<>>
        c  == IF fresh THEN Len(cs) + 1 ELSE IF cache = None THEN 1 ELSE cache
        cs1 == IF fresh THEN Append(cs, EmptyDict) ELSE cs
        h1 == Append(h, Object("memof", "", f, <<>>, c,
                               <<"m", "e", "m", "o", "f">>, TRUE))
        h2 == trace(h1, Len(h1), f, NoAttr)
        g  == Len(h2)
    IN  [heap |-> [h2 EXCEPT ![g].name = h[f].name],
         caches |-> cs1, ret |-> g]

\* memoize(f, cache): the heap and the caches it leaves and the id of the
\* callable it returns
memoize(h, cs, f, cache) ==
    IF ~CanWrap(h[f])
    THEN [heap |-> h, caches |-> cs, ret |-> None]   \* AttributeError
    ELSE
    LET fresh == cache = None
        c  == IF fresh THEN Len(cs) + 1 ELSE cache
        cs1 == IF fresh THEN Append(cs, EmptyDict) ELSE cs
        h1 == Append(h, Object("memof", "", f, <<>>, c,
                               <<"m", "e", "m", "o", "f">>, TRUE))
        h2 == trace(h1, Len(h1), f, NoAttr)
        g  == Len(h2)
    IN  [heap |-> [h2 EXCEPT ![g].name = h[f].name],
         caches |-> cs1, ret |-> g]

Reverse(s) == [i \in 1..Len(s) |-> s[Len(s) + 1 - i]]

\* '_'.join(names)
RECURSIVE Join(_)
Join(names) ==
    IF names = <<>> THEN <<>>
    ELSE IF Len(names) = 1 THEN names[1]
    ELSE names[1] \o <<"_">> \o Join(Tail(names))

\* 'composed_' + '_'.join(_safe_funcname(f) for f in funcs)
FuncName(h, funcs) ==
    <<"c", "o", "m", "p", "o", "s", "e", "d", "_">>
        \o Join([i \in 1..Len(funcs) |-> _safe_funcname(Attrs(h[funcs[i]]))])

\* compose that applies the functions in the listed order: fns = list(funcs)
composeNotReversed(h, identity, funcs) ==
    IF funcs = <<>> THEN [heap |-> h, ret |-> identity]
    ELSE IF Len(funcs) = 1 THEN [heap |-> h, ret |-> funcs[1]]
    ELSE LET h1 == Append(h, Object("composed", "", None, funcs, None,
                                    <<"c", "o", "m", "p", "o", "s", "e", "d">>,
                                    TRUE))
             h2 == trace(h1, Len(h1), None, FuncName(h, funcs))
         IN  [heap |-> h2, ret |-> Len(h2)]

\* compose without the len(funcs) == 1 case: one function is wrapped too
composeWrapsOne(h, identity, funcs) ==
    IF funcs = <<>> THEN [heap |-> h, ret |-> identity]
    ELSE LET h1 == Append(h, Object("composed", "", None, Reverse(funcs), None,
                                    <<"c", "o", "m", "p", "o", "s", "e", "d">>,
                                    TRUE))
             h2 == trace(h1, Len(h1), None, FuncName(h, funcs))
         IN  [heap |-> h2, ret |-> Len(h2)]

\* compose(*funcs): the heap it leaves and the id of the callable it returns;
\* identity is the traced toolz.identity of the namespace
compose(h, identity, funcs) ==
    IF funcs = <<>> THEN [heap |-> h, ret |-> identity]
    ELSE IF Len(funcs) = 1 THEN [heap |-> h, ret |-> funcs[1]]
    ELSE LET h1 == Append(h, Object("composed", "", None, Reverse(funcs), None,
                                    <<"c", "o", "m", "p", "o", "s", "e", "d">>,
                                    TRUE))
             h2 == trace(h1, Len(h1), None, FuncName(h, funcs))
         IN  [heap |-> h2, ret |-> Len(h2)]

----------------------------------------------------------------------------
\* The caller: builds wrappers and calls them

InitHeap ==
    << Function("add", <<"a", "d", "d">>),
       Function("recip", <<"r", "e", "c", "i", "p">>),
       Function("flaky", <<"f", "l", "a", "k", "y">>),
       Partial("inc"),
       Function("identity", <<"i", "d", "e", "n", "t", "i", "t", "y">>),
       update_wrapper(
           Object("tracer", "", 5, <<>>, None, NoAttr, TRUE),
           Function("identity", <<"i", "d", "e", "n", "t", "i", "t", "y">>)),
       Instance("inc") >>

AddId == 1
RecipId == 2
FlakyId == 3
PartialId == 4
\* the name identity of the traced namespace: trace(toolz.identity)
IdentityId == 6
InstanceId == 7

\* the functions the caller memoizes, and those it composes
MemoPool == {AddId, FlakyId, PartialId}
ComposePool == {AddId, RecipId}

\* one mapping for each wrapper there is room for
MaxCaches == MaxNew \div 2

\* g(x), g([1, 2, 3])
MemoArgs == {<<v>> : v \in Val \cup {Unhashable}}
ComposeArgs ==
    {<<Unhashable>>} \cup {<<v>> : v \in Val} \cup {<<v, MaxVal>> : v \in Val}
Kwargs == {NoKw, {<<"k", MaxVal>>}}

Op(op, fn, funcs, cache, args, kw, out, ret, log) ==
    [op |-> op, fn |-> fn, funcs |-> funcs, cache |-> cache, args |-> args,
     kw |-> kw, out |-> out, ret |-> ret, log |-> log,
     pre |-> caches,
     heap0 |-> IF op \in {"memoize", "compose"} THEN heap ELSE <<>>]

Made(op, ret, f, cache, funcs) ==
    [op |-> op, ret |-> ret, f |-> f, cache |-> cache, funcs |-> funcs]

Idle == <<func, cleaned, ns, d>>

\* cache = {}: the caller makes a mapping to hand to memoize
NewDict ==
    /\ Len(caches) < MaxCaches
    /\ caches' = Append(caches, EmptyDict)
    /\ dicts' = dicts \cup {Len(caches) + 1}
    /\ last' = Op("dict", None, <<>>, Len(caches) + 1, <<>>, NoKw, Ret(0), None, <<>>)
    /\ UNCHANGED <<heap, held, world, made, invoked, Idle>>

\* g = memoize(f, cache)
DoMemoize(f, cache) ==
    LET m == memoize(heap, caches, f, cache) IN
    /\ Len(heap) + 2 <= Len(InitHeap) + MaxNew
    /\ cache = None => Len(caches) < MaxCaches
    /\ heap' = m.heap
    /\ caches' = m.caches
    /\ held' = IF m.ret = None THEN held ELSE held \cup {m.ret}
    /\ made' = IF m.ret = None THEN made
               ELSE Append(made, Made("memoize", m.ret, f, cache, <<>>))
    /\ last' = Op("memoize", f, <<>>, cache, <<>>, NoKw,
                  IF m.ret = None THEN Raise("AttributeError") ELSE Ret(0),
                  m.ret, <<>>)
    /\ UNCHANGED <<dicts, world, invoked, Idle>>

\* h = compose(*funcs)
DoCompose(funcs) ==
    LET c == compose(heap, IdentityId, funcs) IN
    /\ Len(funcs) >= 2 => Len(heap) + 2 <= Len(InitHeap) + MaxNew
    /\ heap' = c.heap
    /\ held' = IF c.heap = heap THEN held ELSE held \cup {c.ret}
    /\ made' = IF c.heap = heap THEN made
               ELSE Append(made, Made("compose", c.ret, None, None, funcs))
    /\ last' = Op("compose", None, funcs, None, <<>>, NoKw, Ret(0), c.ret, <<>>)
    /\ UNCHANGED <<caches, dicts, world, invoked, Idle>>

\* the invocations a call made directly from the body of the wrapped
\* function: the tracer wrapper is at depth 0, its function at depth 1
Direct(log) == SelectSeq(log, LAMBDA e : e.depth = 2)

\* how often g ran its f to a result on args, and the first such result
Runs(g, args, val) ==
    IF <<g, args>> \in DOMAIN invoked
    THEN [invoked[<<g, args>>] EXCEPT !.n = @ + 1]
    ELSE [n |-> 1, first |-> val]

\* g(*args, **kwargs) on a callable that memoize or compose returned
DoCall(g, args, kw) ==
    \E r \in {Call(heap, caches, world, g, args, kw)} :
    LET ran == r.out.ok /\ Direct(r.log) # <<>> /\ heap[heap[g].target].kind = "memof"
    IN
    /\ caches' = r.caches
    /\ world' = r.world
    /\ invoked' = IF ran THEN (<<g, args>> :> Runs(g, args, r.out.val)) @@ invoked
                  ELSE invoked
    /\ last' = Op("call", g, <<>>, None, args, kw, r.out, None, r.log)
    /\ UNCHANGED <<heap, held, dicts, made, Idle>>

Wrappers == {g \in held : g > Len(InitHeap)}

InitCaller(pool) ==
    /\ heap = InitHeap
    /\ caches = <<>>
    /\ held = pool
    /\ dicts = {}
    /\ world = 0
    /\ last = [op |-> "none", fn |-> None, funcs |-> <<>>, cache |-> None,
               args |-> <<>>, kw |-> NoKw, out |-> Ret(0), ret |-> None,
               log |-> <<>>, pre |-> <<>>, heap0 |-> <<>>]
    /\ made = <<>>
    /\ invoked = <<>>
    /\ func = [func_name |-> NoAttr, name |-> NoAttr, repr |-> <<>>]
    /\ cleaned = <<>>
    /\ ns = <<>>
    /\ d = <<>>

InitMemo == InitCaller(MemoPool)

NextMemo ==
    \/ NewDict
    \/ \E f \in held, cache \in {None} \cup dicts : DoMemoize(f, cache)
    \/ \E g \in Wrappers, args \in MemoArgs, kw \in Kwargs : DoCall(g, args, kw)

SpecMemo == InitMemo /\ [][NextMemo]_vars

InitCompose == InitCaller(ComposePool)

\* up to MaxFuncs plain functions, or two callables of any kind
FuncLists ==
    UNION {[1..k -> ComposePool] : k \in 0..MaxFuncs} \cup [1..2 -> held]

\* the composites, and the identity that compose() has just returned
Composites ==
    Wrappers \cup
        (IF last.op = "compose" /\ last.funcs = <<>> THEN {last.ret} ELSE {})

NextCompose ==
    \/ \E funcs \in FuncLists : DoCompose(funcs)
    \/ \E g \in Composites, args \in ComposeArgs, kw \in Kwargs :
         DoCall(g, args, kw)

SpecCompose == InitCompose /\ [][NextCompose]_vars

----------------------------------------------------------------------------
\* The name sanitizer

NameAlphabet == {"a", "Z", "7", "_", "-", " "}

Fill(c, n) == [i \in 1..n |-> c]

\* run lengths around the limit, and the short ones
FillLens == {0, 1} \cup (NameLimit - 2)..MaxFill

Affixes(n) == UNION {[1..k -> NameAlphabet] : k \in 0..n}

NameInputs ==
    {<<"a", "-", "b", " ", "c", "!">>, <<"1", "2", "3", "a", "b", "c">>}
        \cup {pre \o Fill(c, n) \o suf :
                 pre \in Affixes(2), c \in {"a", "7", "-"}, n \in FillLens,
                 suf \in Affixes(1)}

\* a function (func_name and __name__), a class (__name__ only), or an
\* object with neither, whose repr is all there is
FuncObjects ==
    {[func_name |-> s, name |-> s, repr |-> <<"<", "7", ">">> \o s] : s \in NameInputs}
        \cup {[func_name |-> NoAttr, name |-> s, repr |-> <<"<", "7", ">">> \o s] :
                 s \in NameInputs}
        \cup {[func_name |-> NoAttr, name |-> NoAttr, repr |-> s] : s \in NameInputs}

NotCaller ==
    /\ heap = InitHeap
    /\ caches = <<>>
    /\ held = {}
    /\ dicts = {}
    /\ world = 0
    /\ made = <<>>
    /\ invoked = <<>>

NoResult == [op |-> "none", input |-> <<>>, out |-> <<>>]

InitName ==
    /\ NotCaller
    /\ last = [op |-> "none"]
    /\ func \in FuncObjects
    /\ cleaned = NoResult
    /\ ns = <<>>
    /\ d = <<>>

\* _clean_name(s) on the string of one of the attributes of func
CleanName(s) ==
    /\ s # NoAttr
    /\ cleaned' = [op |-> "clean", input |-> s, out |-> _clean_name(s)]
    /\ UNCHANGED <<heap, caches, held, dicts, world, last, made, invoked, func, ns, d>>

\* _safe_funcname(func)
SafeFuncname ==
    /\ cleaned' = [op |-> "safe", input |-> <<>>, out |-> _safe_funcname(func)]
    /\ UNCHANGED <<heap, caches, held, dicts, world, last, made, invoked, func, ns, d>>

NextName ==
    \/ \E s \in {func.func_name, func.name, func.repr} : CleanName(s)
    \/ SafeFuncname

SpecName == InitName /\ [][NextName]_vars

----------------------------------------------------------------------------
\* The bulk wrapper: d = dict((name, trace(f) if traceable(name, f) else f)
\*                            for name, f in toolz.__dict__.items())

\* sub in s
Contains(s, sub) ==
    \E i \in 0..(Len(s) - Len(sub)) : SubSeq(s, i + 1, i + Len(sub)) = sub

\* a value of the namespace: a callable object of the heap (ref its id), or
\* a value that is not callable (ref a number), with or without __module__
Callable(ref) == [callable |-> TRUE, ref |-> ref]
Plain(v, module) == [callable |-> FALSE, ref |-> v, module |-> module]

HasModule(h, f) == IF f.callable THEN h[f.ref].module ELSE f.module

\* traceable that tests name.startswith('__')
traceableStartsWith(h, name, f) ==
    /\ ~(Len(name) >= 2 /\ SubSeq(name, 1, 2) = <<"_", "_">>)
    /\ f.callable /\ HasModule(h, f)

\* '__' not in name and callable(f) and hasattr(f, '__module__')
traceable(h, name, f) ==
    ~Contains(name, <<"_", "_">>) /\ f.callable /\ HasModule(h, f)

\* one entry after another, in the order the dict yields them; trace(f)
\* raises AttributeError when f has no __name__
RECURSIVE BuildTraced(_, _, _, _)
BuildTraced(h, src, names, acc) ==
    IF names = {} THEN [heap |-> h, d |-> acc, ok |-> TRUE]
    ELSE LET name == CHOOSE n \in names : TRUE
             f == src[name]
         IN  IF ~traceable(h, name, f)
             THEN BuildTraced(h, src, names \ {name}, (name :> f) @@ acc)
             ELSE IF ~CanWrap(h[f.ref])
             THEN [heap |-> h, d |-> <<>>, ok |-> FALSE]
             ELSE LET h1 == trace(h, f.ref, None, NoAttr) IN
                  BuildTraced(h1, src, names \ {name},
                              (name :> Callable(Len(h1))) @@ acc)

BulkNames ==
    { <<"f">>, <<"_", "f", "_", "g">>, <<"_", "_", "f", "_", "_">>,
      <<"f", "_", "_", "g">> }

BulkValues ==
    { Callable(AddId), Callable(PartialId), Callable(InstanceId),
      Plain(1, FALSE), Plain(1, TRUE) }

InitBulk ==
    /\ NotCaller
    /\ last = [op |-> "none", out |-> Ret(0)]
    /\ func = [func_name |-> NoAttr, name |-> NoAttr, repr |-> <<>>]
    /\ cleaned = NoResult
    /\ ns \in UNION {[names -> BulkValues] : names \in SUBSET BulkNames}
    /\ d = <<>>

\* import toolz.traced
Import ==
    LET b == BuildTraced(heap, ns, DOMAIN ns, <<>>) IN
    /\ last.op = "none"
    /\ heap' = b.heap
    /\ d' = b.d
    /\ last' = [op |-> "import",
                out |-> IF b.ok THEN Ret(0) ELSE Raise("AttributeError")]
    /\ UNCHANGED <<caches, held, dicts, world, made, invoked, func, cleaned, ns>>

NextBulk == Import

SpecBulk == InitBulk /\ [][NextBulk]_vars

----------------------------------------------------------------------------
\* Properties of memoize (under SpecMemo)

\* the memof closure behind the wrapper g, its function and its cache
Closure(g) == heap[heap[g].target]
CacheOf(g) == Closure(g).cache
WasCall == last.op = "call"
\* the invocations of f the last call made from the body of memof
RanF == Direct(last.log)
Positional == WasCall /\ last.kw = NoKw /\ Hashable(last.args)
WasHit == Positional /\ last.args \in DOMAIN last.pre[CacheOf(last.fn)]
WasMiss == Positional /\ last.args \notin DOMAIN last.pre[CacheOf(last.fn)]

\* C1: an entry once stored is never overwritten or removed; a call on a
\* cached tuple returns the cached value and does not invoke f; a call that
\* misses invokes f once, with the tuple, and stores and returns its result;
\* so f runs to a result at most once per wrapper and tuple, and every later
\* result of the wrapper for the tuple is that first one.
C1_CacheHoldsFirstResult ==
    /\ \A c \in 1..Len(last.pre) : \A k \in DOMAIN last.pre[c] :
          k \in DOMAIN caches[c] /\ caches[c][k] = last.pre[c][k]
    /\ WasHit =>
          /\ last.out = Ret(last.pre[CacheOf(last.fn)][last.args])
          /\ RanF = <<>>
    /\ (WasMiss /\ last.out.ok) =>
          /\ Len(RanF) = 1
          /\ RanF[1].f = Closure(last.fn).target
          /\ RanF[1].args = last.args /\ RanF[1].kw = NoKw
          /\ RanF[1].out = last.out
          /\ last.args \in DOMAIN caches[CacheOf(last.fn)]
          /\ caches[CacheOf(last.fn)][last.args] = last.out.val
    /\ \A p \in DOMAIN invoked : invoked[p].n <= 1
    /\ (Positional /\ last.out.ok /\ <<last.fn, last.args>> \in DOMAIN invoked) =>
          last.out.val = invoked[<<last.fn, last.args>>].first

\* a hit on an impure f whose result would now differ from the cached one
C1_Witness ==
    /\ WasHit
    /\ heap[Closure(last.fn).target].beh = "flaky"
    /\ <<last.fn, last.args>> \in DOMAIN invoked
    /\ LET now == Apply("flaky", last.args, NoKw, world) IN
       now.out.ok /\ now.out # last.out

\* C2: a call with a positional tuple that has no hash fails with the
\* hashability TypeError, f is not invoked and no cache changes.
C2_UnhashableRejected ==
    (WasCall /\ last.kw = NoKw /\ ~Hashable(last.args)) =>
        /\ last.out = Raise(HashError)
        /\ RanF = <<>>
        /\ caches = last.pre

C2_Witness ==
    /\ WasCall /\ last.kw = NoKw /\ last.args = <<Unhashable>>
    /\ caches[CacheOf(last.fn)] # EmptyDict
    /\ last.out = Raise(HashError)

\* C3 as claimed: a call with keyword arguments on a tuple that is cached is
\* a hit and returns the cached result.
C3_KeywordsIgnored ==
    (WasCall /\ last.kw # NoKw /\ Hashable(last.args)
        /\ last.args \in DOMAIN last.pre[CacheOf(last.fn)]) =>
        last.out = Ret(last.pre[CacheOf(last.fn)][last.args])

\* C3 amended: a call with a keyword argument is rejected with a TypeError,
\* whatever the positional tuple and whether or not it is cached; f is not
\* invoked and no cache changes.
C3_KeywordsRejected ==
    (WasCall /\ last.kw # NoKw) =>
        /\ last.out = Raise(KeywordError)
        /\ RanF = <<>>
        /\ caches = last.pre

\* a keyword call on a cached tuple of a function that takes the keyword
C3_Witness ==
    /\ WasCall /\ last.kw # NoKw
    /\ last.args \in DOMAIN caches[CacheOf(last.fn)]
    /\ heap[Closure(last.fn).target].beh = "add"
    /\ ~last.out.ok

\* C10: when f raises on a miss the error reaches the caller as raised, no
\* cache changes, and the next call with the tuple invokes f again.
C10_FailureNotCached ==
    (WasMiss /\ ~last.out.ok) =>
        /\ Len(RanF) = 1
        /\ RanF[1].out = last.out
        /\ caches = last.pre
        /\ last.args \notin DOMAIN caches[CacheOf(last.fn)]
        /\ Direct(Call(heap, caches, world, last.fn, last.args, NoKw).log) # <<>>

\* f raised IOError on a miss of a wrapper whose cache holds other entries
C10_Witness ==
    /\ WasMiss /\ last.out = Raise("IOError")
    /\ caches[CacheOf(last.fn)] # EmptyDict

\* the cache mappings a call of f can read or write
RECURSIVE Reach(_)
Reach(f) ==
    LET o == heap[f] IN
    CASE o.kind = "function" -> {}
      [] o.kind = "tracer" -> Reach(o.target)
      [] o.kind = "memof" -> {o.cache} \cup Reach(o.target)
      [] o.kind = "composed" -> UNION {Reach(o.fns[i]) : i \in 1..Len(o.fns)}

Memofs == {m \in 1..Len(heap) : heap[m].kind = "memof"}

\* C4: memoize without a cache makes a new, empty mapping that no other
\* wrapper and not the caller holds; memoize with a mapping uses that very
\* mapping; a call changes no mapping but those of the wrapper called; two
\* wrappers over one mapping return each other's entries without invoking
\* their functions, and wrappers over different mappings do not.
C4_SharedIffSameMapping ==
    /\ \A m1, m2 \in Memofs :
          (m1 # m2 /\ heap[m1].cache = heap[m2].cache) => heap[m1].cache \in dicts
    /\ (last.op = "memoize" /\ last.ret # None) =>
          IF last.cache = None
          THEN /\ CacheOf(last.ret) = Len(last.pre) + 1
               /\ caches = Append(last.pre, EmptyDict)
               /\ CacheOf(last.ret) \notin dicts
          ELSE /\ CacheOf(last.ret) = last.cache
               /\ caches = last.pre
    /\ WasCall =>
          \A c \in (1..Len(caches)) \ Reach(last.fn) : caches[c] = last.pre[c]
    /\ \A g1, g2 \in Wrappers : \A a \in DOMAIN caches[CacheOf(g1)] :
          LET r == Call(heap, caches, world, g2, a, NoKw) IN
          IF CacheOf(g1) = CacheOf(g2)
          THEN r.out = Ret(caches[CacheOf(g1)][a]) /\ Direct(r.log) = <<>>
          ELSE a \notin DOMAIN caches[CacheOf(g2)] => Direct(r.log) # <<>>

\* a hit through one wrapper on an entry that a call through another wrapper
\* of another function stored in the mapping both were given, while a third
\* mapping, made by memoize, stays empty
C4_Witness ==
    /\ WasHit
    /\ <<last.fn, last.args>> \notin DOMAIN invoked
    /\ \E g1 \in Wrappers :
          /\ g1 # last.fn
          /\ CacheOf(g1) = CacheOf(last.fn)
          /\ <<g1, last.args>> \in DOMAIN invoked
          /\ Closure(g1).target # Closure(last.fn).target
    /\ CacheOf(last.fn) \in dicts

----------------------------------------------------------------------------
\* Properties of compose (under SpecCompose)

\* the functions a composite was made of, as listed in the compose call
FuncsOf(g) == (CHOOSE i \in 1..Len(made) : made[i].ret = g)

\* C5: a call of compose(f1, ..., fn), n >= 2, invokes fn with the call's
\* positional and keyword arguments, then fn-1, ..., f1, each on the result
\* of the one before as its only argument and each once; it stops only at a
\* stage that raises, and its outcome is that of the last stage it invoked.
C5_RightToLeft ==
    (WasCall /\ last.fn \in Wrappers) =>
        LET funcs == made[FuncsOf(last.fn)].funcs
            n == Len(funcs)
            st == Direct(last.log)
        IN  /\ n >= 2
            /\ Len(st) \in 1..n
            /\ \A i \in 1..Len(st) : st[i].f = funcs[n + 1 - i]
            /\ st[1].args = last.args /\ st[1].kw = last.kw
            /\ \A i \in 2..Len(st) :
                  /\ st[i - 1].out.ok
                  /\ st[i].args = <<st[i - 1].out.val>>
                  /\ st[i].kw = NoKw
            /\ Len(st) < n => ~st[Len(st)].out.ok
            /\ last.out = st[Len(st)].out

\* compose(f, g, h)(x, y, k=...) with f and h different ran all three stages
C5_Witness ==
    /\ WasCall /\ last.fn \in Wrappers
    /\ Len(last.args) = 2 /\ last.kw # NoKw /\ last.out.ok
    /\ LET funcs == made[FuncsOf(last.fn)].funcs IN
       /\ Len(funcs) = 3 /\ funcs[1] # funcs[3]
       /\ Len(Direct(last.log)) = 3

\* C6: compose() returns the identity of the namespace, which returns its
\* one argument; compose(f) returns f itself; neither makes or renames an
\* object.
C6_ZeroAndOneFunction ==
    last.op = "compose" =>
        /\ last.funcs = <<>> =>
              /\ last.ret = IdentityId
              /\ heap = last.heap0
              /\ \A v \in Val \cup {Unhashable} :
                    Call(heap, caches, world, last.ret, <<v>>, NoKw).out = Ret(v)
        /\ Len(last.funcs) = 1 =>
              /\ last.ret = last.funcs[1]
              /\ heap = last.heap0

\* compose(f) of a plain function, after some composite was made
C6_Witness ==
    /\ last.op = "compose" /\ Len(last.funcs) = 1
    /\ last.funcs[1] \in ComposePool
    /\ Wrappers # {}

\* the invocations of the underlying functions in a log, in order
Leaves(h, log) ==
    LET s == SelectSeq(log, LAMBDA e : h[e.f].kind = "function") IN
    [i \in 1..Len(s) |->
        [f |-> s[i].f, args |-> s[i].args, kw |-> s[i].kw, out |-> s[i].out]]

\* the composites made of a function and a composite
Nested ==
    {g \in Wrappers :
        LET funcs == made[FuncsOf(g)].funcs IN
        Len(funcs) = 2 /\ funcs[2] \in Wrappers}

\* the functions of compose(f, g, h) for the nested compose(f, compose(g, h))
Flat(g) ==
    LET funcs == made[FuncsOf(g)].funcs IN
    <<funcs[1]>> \o made[FuncsOf(funcs[2])].funcs

\* C7: compose(f, compose(g, h)) and compose(f, g, h) return the same or
\* raise the same on every input, and invoke the same underlying functions
\* with the same arguments in the same order.
C7_Associative ==
    \A g \in Nested :
        LET flat == compose(heap, IdentityId, Flat(g)) IN
        \A args \in ComposeArgs, kw \in Kwargs :
            LET a == Call(heap, caches, world, g, args, kw)
                b == Call(flat.heap, caches, world, flat.ret, args, kw)
            IN  /\ a.out = b.out
                /\ a.world = b.world
                /\ Leaves(heap, a.log) = Leaves(flat.heap, b.log)

\* a call of compose(f, compose(g, h)) in which g raised after h returned
C7_Witness ==
    /\ WasCall /\ last.fn \in Nested
    /\ ~last.out.ok
    /\ Len(Leaves(heap, last.log)) = 2
    /\ made[FuncsOf(last.fn)].funcs[1] # Flat(last.fn)[3]

----------------------------------------------------------------------------
\* Properties of the name sanitizer (under SpecName)

\* s without the characters outside [0-9a-zA-Z_]
WordOnly(s) == SelectSeq(s, LAMBDA c : c \in WordChars)

\* how many characters at the start of s are outside [a-zA-Z_]
LeadingRun(s) ==
    CHOOSE k \in 0..Len(s) :
        /\ \A i \in 1..k : s[i] \notin StartChars
        /\ k = Len(s) \/ s[k + 1] \in StartChars

\* C8: _clean_name(s) is s without its non-word characters, then without the
\* leading run of characters that are no letter or underscore, cut to 32
\* characters: only word characters, no digit first, at most 32 long, and
\* exactly 32 long when more than 32 remain.
C8_CleanName ==
    cleaned.op = "clean" =>
        LET s == cleaned.input
            r == cleaned.out
            w == WordOnly(s)
            rest == SubSeq(w, LeadingRun(w) + 1, Len(w))
        IN  /\ \A i \in 1..Len(r) : r[i] \in WordChars
            /\ r # <<>> => r[1] \notin Digits
            /\ Len(r) <= 32
            /\ Len(rest) > 32 => Len(r) = 32
            /\ Len(rest) <= 32 => r = rest
            /\ \A i \in 1..Len(r) : r[i] = rest[i]
            /\ s = <<"a", "-", "b", " ", "c", "!">> => r = <<"a", "b", "c">>
            /\ s = <<"1", "2", "3", "a", "b", "c">> => r = <<"a", "b", "c">>

\* a name that loses a non-word character and two leading digits and is cut
C8_Witness ==
    /\ cleaned.op = "clean"
    /\ Len(cleaned.out) = 32
    /\ Len(WordOnly(cleaned.input)) < Len(cleaned.input)
    /\ LeadingRun(WordOnly(cleaned.input)) = 2
    /\ Len(WordOnly(cleaned.input)) > 34

----------------------------------------------------------------------------
\* Properties of the bulk wrapper (under SpecBulk)

NoDunder(name) ==
    ~\E i \in 1..(Len(name) - 1) : name[i] = "_" /\ name[i + 1] = "_"

Eligible(name, f) ==
    /\ NoDunder(name)
    /\ f.callable
    /\ InitHeap[f.ref].module

\* C9: when the import succeeds, d has the names of the namespace; the entry
\* of an eligible name is a new traced wrapper of the value, and every other
\* entry is the value itself; the objects of the namespace are unchanged.
C9_BulkWrap ==
    (last.op = "import" /\ last.out.ok) =>
        /\ DOMAIN d = DOMAIN ns
        /\ SubSeq(heap, 1, Len(InitHeap)) = InitHeap
        /\ \A name \in DOMAIN ns :
              IF Eligible(name, ns[name])
              THEN /\ d[name].callable
                   /\ d[name].ref \in (Len(InitHeap) + 1)..Len(heap)
                   /\ heap[d[name].ref].kind = "tracer"
                   /\ heap[d[name].ref].target = ns[name].ref
                   /\ \A other \in DOMAIN ns \ {name} : d[other].ref # d[name].ref
              ELSE d[name] = ns[name]

\* a function under a plain name is traced, the same function under names
\* with a double underscore is not, nor is a callable without __module__
C9_Witness ==
    /\ last.op = "import" /\ last.out.ok
    /\ DOMAIN ns = BulkNames
    /\ ns[<<"f">>] = Callable(AddId) /\ d[<<"f">>] # ns[<<"f">>]
    /\ ns[<<"f", "_", "_", "g">>] = Callable(AddId)
    /\ ns[<<"_", "_", "f", "_", "_">>] = Plain(1, TRUE)
    /\ ns[<<"_", "f", "_", "g">>] = Callable(PartialId)

====
